---- MODULE Spec2Model ----
(***************************************************************************)
(* Model of bendfords_law/helpers.py: the digit extractor (int_to_digits,  *)
(* get_digits), the memoized Fibonacci generator (fib_number,              *)
(* fib_sequence) and the empirical digit counter (digit_occurrences).      *)
(*                                                                         *)
(* Python values are records [type, val].  A Python int is unbounded, so   *)
(* it is a little-endian sequence of limbs without leading zeros (0 is     *)
(* <<>>); a float holds the exact integer value of the double in the same  *)
(* form (only integer-valued floats occur); a str holds its characters.    *)
(***************************************************************************)
EXTENDS Integers, Sequences, FiniteSets, TLC

VARIABLES cache, returned, op

vars == <<cache, returned, op>>

(***************************************************************************)
(* Bounds of the model.                                                    *)
(***************************************************************************)
MaxN == 9            \* fib_number is called with n in -1..MaxN
MaxCount == 5        \* fib_sequence is called with n_elements in 0..MaxCount
MaxNumber == 130     \* digit extraction is applied to the integers 0..MaxNumber
MaxIndices == 2      \* get_digits is called with at most MaxIndices indices
MaxDigitIndex == 2   \* digit positions range over -1..MaxDigitIndex
MaxSeqLen == 3       \* digit_occurrences is called on sequences of at most MaxSeqLen numbers

(***************************************************************************)
(* Program constants.                                                      *)
(***************************************************************************)
DefaultElements == 100  \* fib_sequence(n_elements: int = 100)
MantissaBits == 53      \* np.zeros(n_elements) is an array of float64

(***************************************************************************)
(* Python int arithmetic (arbitrary precision): little-endian limbs in     *)
(* base 2^15, as CPython stores them.                                      *)
(***************************************************************************)
LimbBits == 15
Base == 2 ^ LimbBits

RECURSIVE BigOfNat(_)
BigOfNat(n) == IF n = 0 THEN <<>> ELSE <<n % Base>> \o BigOfNat(n \div Base)

RECURSIVE AddLimbs(_, _, _)
AddLimbs(a, b, carry) ==
    IF a = <<>> /\ b = <<>>
    THEN IF carry = 1 THEN <<1>> ELSE <<>>
    ELSE LET x == IF a = <<>> THEN 0 ELSE Head(a)
             y == IF b = <<>> THEN 0 ELSE Head(b)
             s == x + y + carry
         IN  <<s % Base>> \o AddLimbs(IF a = <<>> THEN <<>> ELSE Tail(a),
                                      IF b = <<>> THEN <<>> ELSE Tail(b),
                                      s \div Base)

\* a + b on Python ints
IntAdd(a, b) == AddLimbs(a, b, 0)

\* divmod(a, 10): quotient as an int, remainder as a digit
RECURSIVE DivMod10(_)
DivMod10(a) ==
    IF a = <<>>
    THEN [q |-> <<>>, r |-> 0]
    ELSE LET hi == DivMod10(Tail(a))
             t  == hi.r * Base + Head(a)
         IN  [q |-> IF hi.q = <<>> /\ t < 10 THEN <<>> ELSE <<t \div 10>> \o hi.q,
              r |-> t % 10]

DigitChars == <<"0", "1", "2", "3", "4", "5", "6", "7", "8", "9">>

RECURSIVE DecimalChars(_)
DecimalChars(a) ==
    IF a = <<>>
    THEN <<>>
    ELSE LET dm == DivMod10(a) IN DecimalChars(dm.q) \o <<DigitChars[dm.r + 1]>>

\* str(i) for a non-negative int i
IntStr(a) == IF a = <<>> THEN <<"0">> ELSE DecimalChars(a)

(***************************************************************************)
(* Conversion of a Python int to float64 (the assignment into the array of *)
(* np.zeros): round to MantissaBits significant bits, ties to even.  The   *)
(* result is the exact integer value of the double, as an int.             *)
(***************************************************************************)
\* the binary digits of a, least significant first, without leading zeros
BitsOf(a) ==
    IF a = <<>>
    THEN <<>>
    ELSE LET top  == a[Len(a)]
             tlen == CHOOSE k \in 1..LimbBits : 2 ^ (k - 1) <= top /\ top < 2 ^ k
         IN  [i \in 1..(LimbBits * (Len(a) - 1) + tlen) |->
                 (a[((i - 1) \div LimbBits) + 1] \div (2 ^ ((i - 1) % LimbBits))) % 2]

RECURSIVE BitsValue(_)
BitsValue(bits) == IF bits = <<>> THEN 0 ELSE Head(bits) + 2 * BitsValue(Tail(bits))

LimbsOfBits(bits) ==
    [j \in 1..((Len(bits) + LimbBits - 1) \div LimbBits) |->
        BitsValue(SubSeq(bits, LimbBits * (j - 1) + 1,
                         IF LimbBits * j < Len(bits) THEN LimbBits * j ELSE Len(bits)))]

\* mant + 1 on binary digits
IncrementBits(mant) ==
    IF \A i \in 1..Len(mant) : mant[i] = 1
    THEN [i \in 1..Len(mant) |-> 0] \o <<1>>
    ELSE LET k == CHOOSE i \in 1..Len(mant) :
                     mant[i] = 0 /\ \A j \in 1..(i - 1) : mant[j] = 1
         IN  [i \in 1..Len(mant) |-> IF i < k THEN 0 ELSE IF i = k THEN 1 ELSE mant[i]]

RoundBits(bits) ==
    IF Len(bits) <= MantissaBits
    THEN bits
    ELSE LET d     == Len(bits) - MantissaBits
             low   == SubSeq(bits, 1, d)
             mant  == SubSeq(bits, d + 1, Len(bits))
             half  == low[d] = 1 /\ \A i \in 1..(d - 1) : low[i] = 0
             above == low[d] = 1 /\ \E i \in 1..(d - 1) : low[i] = 1
             up    == above \/ (half /\ mant[1] = 1)
         IN  [i \in 1..d |-> 0] \o (IF up THEN IncrementBits(mant) ELSE mant)

Float64OfInt(a) == LimbsOfBits(RoundBits(BitsOf(a)))

(***************************************************************************)
(* Python values.                                                          *)
(***************************************************************************)
PyInt(n)     == [type |-> "int", val |-> BigOfNat(n)]
NpInt64(n)   == [type |-> "int64", val |-> BigOfNat(n)]
PyFloat(n)   == [type |-> "float", val |-> BigOfNat(n)]
PyBool(b)    == [type |-> "bool", val |-> IF b THEN <<1>> ELSE <<>>]
PyStr(chars) == [type |-> "str", val |-> chars]

\* isinstance(number, (int, np.integer)); bool is a subclass of int
IsInstanceInt(v) == v.type \in {"int", "int64", "bool"}

\* str(v); a float prints as digits and ".0" below 1e16, the only floats str
\* is applied to (a float64 of fib_sequence is rejected before str is reached)
Str(v) ==
    CASE v.type \in {"int", "int64"}     -> IntStr(v.val)
      [] v.type \in {"float", "float64"} -> IntStr(v.val) \o <<".", "0">>
      [] v.type = "bool"                 -> IF v.val = <<>>
                                            THEN <<"F", "a", "l", "s", "e">>
                                            ELSE <<"T", "r", "u", "e">>
      [] v.type = "str"                  -> v.val

IsDigitChar(c) == \E d \in 1..10 : DigitChars[d] = c

\* int(digit) for a one-character string holding a decimal digit
IntOfChar(c) == (CHOOSE d \in 1..10 : DigitChars[d] = c) - 1

Returned(value) == [status |-> "returned", value |-> value]
Raised(error)   == [status |-> "raised", value |-> error]

(***************************************************************************)
(* int_to_digits                                                           *)
(***************************************************************************)
\* mutant: the digits least significant first
int_to_digits_reversed(integer) ==
    LET s == Str(integer)
    IN  IF \E i \in 1..Len(s) : ~IsDigitChar(s[i])
        THEN Raised("ValueError")
        ELSE Returned([i \in 1..Len(s) |-> IntOfChar(s[Len(s) + 1 - i])])

int_to_digits(integer) ==
    LET s == Str(integer)
    IN  IF \E i \in 1..Len(s) : ~IsDigitChar(s[i])
        THEN Raised("ValueError")    \* int(digit) on a character that is no digit
        ELSE Returned([i \in 1..Len(s) |-> IntOfChar(s[i])])

(***************************************************************************)
(* get_digits                                                              *)
(***************************************************************************)
\* digits[index] on a Python list: 0-based, negative indices count from the end
ListIndexOk(digits, index) == -Len(digits) <= index /\ index < Len(digits)
\* mutant: non-negative positions counted from the least significant digit
ListItemFromEnd(digits, index) ==
    IF index >= 0 THEN digits[Len(digits) - index] ELSE digits[Len(digits) + index + 1]

ListItem(digits, index) ==
    IF index >= 0 THEN digits[index + 1] ELSE digits[Len(digits) + index + 1]

\* mutant: a position beyond the last digit yields 0 instead of failing
get_digits_zero_padded(number, indices) ==
    IF ~IsInstanceInt(number)
    THEN Raised("ValueError")
    ELSE LET digits == int_to_digits(number)
         IN  IF digits.status = "raised"
             THEN digits
             ELSE Returned([j \in 1..Len(indices) |->
                               IF ListIndexOk(digits.value, indices[j])
                               THEN ListItem(digits.value, indices[j])
                               ELSE 0])

get_digits(number, indices) ==
    IF ~IsInstanceInt(number)
    THEN Raised("ValueError")
    ELSE LET digits == int_to_digits(number)
         IN  IF digits.status = "raised"
             THEN digits
             ELSE IF \E j \in 1..Len(indices) : ~ListIndexOk(digits.value, indices[j])
                  THEN Raised("IndexError")
                  ELSE Returned([j \in 1..Len(indices) |->
                                    ListItem(digits.value, indices[j])])

(***************************************************************************)
(* digit_occurrences                                                       *)
(***************************************************************************)
\* Counter(list): the pairs <<key, count>> in order of first occurrence
RECURSIVE Counter(_)
Counter(list) ==
    IF list = <<>>
    THEN <<>>
    ELSE LET init == Counter(SubSeq(list, 1, Len(list) - 1))
             x    == list[Len(list)]
         IN  IF \E k \in 1..Len(init) : init[k][1] = x
             THEN [k \in 1..Len(init) |->
                      IF init[k][1] = x THEN <<x, init[k][2] + 1>> ELSE init[k]]
             ELSE Append(init, <<x, 1>>)

\* mutant: the tally of the key is kept
CounterPopNothing(counter, key) == counter

\* digit_counter.pop(key, None)
CounterPop(counter, key) == SelectSeq(counter, LAMBDA p : p[1] # key)

\* sorted(pairs, key=lambda tup: tup[0]): a stable sort by the first component
RECURSIVE SortedByKey(_)
SortedByKey(pairs) ==
    IF pairs = <<>>
    THEN <<>>
    ELSE LET init == SortedByKey(SubSeq(pairs, 1, Len(pairs) - 1))
             p    == pairs[Len(pairs)]
             k    == Cardinality({i \in 1..Len(init) : init[i][1] <= p[1]})
         IN  SubSeq(init, 1, k) \o <<p>> \o SubSeq(init, k + 1, Len(init))

digit_occurrences(sequence, digit_index, exclude_zero) ==
    LET extracted == [i \in 1..Len(sequence) |-> get_digits(sequence[i], <<digit_index>>)]
        failing   == {i \in 1..Len(sequence) : extracted[i].status = "raised"}
    IN  IF failing # {}
        THEN extracted[CHOOSE i \in failing : \A j \in failing : i <= j]
        ELSE LET first_digits_list == [i \in 1..Len(sequence) |-> extracted[i].value[1]]
                 counted       == Counter(first_digits_list)
                 digit_counter == IF exclude_zero THEN CounterPop(counted, 0) ELSE counted
                 sorted_pairs  == SortedByKey(digit_counter)
             IN  IF sorted_pairs = <<>>
                 THEN Raised("IndexError")   \* np.array([]) is 1-dimensional: [:, 0] fails
                 ELSE Returned([digits      |-> [k \in 1..Len(sorted_pairs) |-> sorted_pairs[k][1]],
                                occurrences |-> [k \in 1..Len(sorted_pairs) |-> sorted_pairs[k][2]]])

(***************************************************************************)
(* fib_number under lru_cache(None).  m = [cache, returned, evals]: the    *)
(* cache of the decorator, the log of the completed calls <<n, value>>     *)
(* and the number of executions of the function body.                      *)
(***************************************************************************)
EmptyCache == [k \in {} |-> <<>>]

\* mutant: a bounded cache that evicts an older entry on each store
CacheStoreEvicting(c, n, v) == (n :> v) @@ [k \in (DOMAIN c) \ {n - 3} |-> c[k]]

\* cache[n] = v
CacheStore(c, n, v) == (n :> v) @@ c

\* a cache miss that computed v: lru_cache stores the result and returns it
CacheMiss(n, v, m) ==
    [status |-> "returned", value |-> v,
     m |-> [cache    |-> CacheStore(m.cache, n, v),
            returned |-> m.returned \cup {<<n, v>>},
            evals    |-> m.evals]]

\* mutant: the body is executed although the result is cached
CacheHitRecomputed(n, m) ==
    [status |-> "returned", value |-> m.cache[n],
     m |-> [m EXCEPT !.returned = @ \cup {<<n, m.cache[n]>>}, !.evals = @ + 1]]

\* a cache hit: the stored result is returned and the body is not executed
CacheHit(n, m) ==
    [status |-> "returned", value |-> m.cache[n],
     m |-> [m EXCEPT !.returned = @ \cup {<<n, m.cache[n]>>}]]

RECURSIVE fib_number(_, _)
fib_number(n, m) ==
    IF n \in DOMAIN m.cache
    THEN CacheHit(n, m)
    ELSE LET m1 == [m EXCEPT !.evals = @ + 1]
         IN  IF n < 0
             THEN [status |-> "raised", value |-> "ValueError", m |-> m1]
             ELSE IF n < 2
                  THEN CacheMiss(n, BigOfNat(n), m1)
                  ELSE LET a == fib_number(n - 1, m1)
                           b == fib_number(n - 2, a.m)
                       IN  IF a.status = "raised" THEN a
                           ELSE IF b.status = "raised" THEN b
                           ELSE CacheMiss(n, IntAdd(a.value, b.value), b.m)

(***************************************************************************)
(* fib_sequence                                                            *)
(***************************************************************************)
Float64(a) == [type |-> "float64", val |-> Float64OfInt(a)]

\* the iterations lo <= i_element < hi of "for i_element in range(n_elements)",
\* in order (split in halves to keep the evaluation shallow); value is the
\* slice sequence[lo:hi] they assign
RECURSIVE FillSequence(_, _, _)
FillSequence(lo, hi, m) ==
    IF hi <= lo
    THEN [status |-> "returned", value |-> <<>>, m |-> m]
    ELSE IF hi = lo + 1
    THEN LET r == fib_number(lo, m)
         IN  IF r.status = "raised"
             THEN r
             ELSE [status |-> "returned", value |-> <<Float64(r.value)>>, m |-> r.m]
    ELSE LET mid   == (lo + hi) \div 2
             left  == FillSequence(lo, mid, m)
             right == FillSequence(mid, hi, left.m)
         IN  IF left.status = "raised" THEN left
             ELSE IF right.status = "raised" THEN right
             ELSE [status |-> "returned", value |-> left.value \o right.value, m |-> right.m]

fib_sequence(n_elements, m) ==
    IF n_elements < 0
    THEN [status |-> "raised", value |-> "ValueError", m |-> m]   \* np.zeros(negative)
    ELSE FillSequence(0, n_elements, m)

(***************************************************************************)
(* The state: the lru_cache of fib_number, the log of the completed        *)
(* fib_number calls, and the call in progress or last completed.           *)
(***************************************************************************)
Call(name, args) ==
    [name |-> name, args |-> args, status |-> "called", value |-> <<>>, evals |-> 0]

Pending(name) == op.status = "called" /\ op.name = name

Idle == op.status # "called"

Memo == [cache |-> cache, returned |-> returned, evals |-> 0]

\* the module has been imported: nothing is cached, nothing has been called
Init ==
    /\ cache = EmptyCache
    /\ returned = {}
    /\ op = [name |-> "import", args |-> <<>>, status |-> "returned",
             value |-> <<>>, evals |-> 0]

(***************************************************************************)
(* The callers.                                                            *)
(***************************************************************************)
CallFibNumber ==
    /\ Idle
    /\ \E n \in -1..MaxN : op' = Call("fib_number", [n |-> n])
    /\ UNCHANGED <<cache, returned>>

CallFibSequence ==
    /\ Idle
    /\ \E n_elements \in (-1..MaxCount) \cup {DefaultElements} :
          op' = Call("fib_sequence", [n_elements |-> n_elements])
    /\ UNCHANGED <<cache, returned>>

\* digit_occurrences(sequence) on the array fib_sequence returned
CallDigitOccurrencesOfFib ==
    /\ op.name = "fib_sequence" /\ op.status = "returned"
    /\ op' = Call("digit_occurrences",
                  [sequence |-> op.value, digit_index |-> 0, exclude_zero |-> TRUE,
                   source |-> "fib_sequence"])
    /\ UNCHANGED <<cache, returned>>

(***************************************************************************)
(* The operations: each action is one whole call.                          *)
(***************************************************************************)
FibNumber ==
    /\ Pending("fib_number")
    /\ LET r == fib_number(op.args.n, Memo)
       IN  /\ cache' = r.m.cache
           /\ returned' = r.m.returned
           /\ op' = [op EXCEPT !.status = r.status, !.value = r.value, !.evals = r.m.evals]

FibSequence ==
    /\ Pending("fib_sequence")
    /\ LET r == fib_sequence(op.args.n_elements, Memo)
       IN  /\ cache' = r.m.cache
           /\ returned' = r.m.returned
           /\ op' = [op EXCEPT !.status = r.status, !.value = r.value, !.evals = r.m.evals]

IntToDigits ==
    /\ Pending("int_to_digits")
    /\ LET r == int_to_digits(op.args.integer)
       IN  op' = [op EXCEPT !.status = r.status, !.value = r.value]
    /\ UNCHANGED <<cache, returned>>

GetDigits ==
    /\ Pending("get_digits")
    /\ LET r == get_digits(op.args.number, op.args.indices)
       IN  op' = [op EXCEPT !.status = r.status, !.value = r.value]
    /\ UNCHANGED <<cache, returned>>

DigitOccurrences ==
    /\ Pending("digit_occurrences")
    /\ LET r == digit_occurrences(op.args.sequence, op.args.digit_index, op.args.exclude_zero)
       IN  op' = [op EXCEPT !.status = r.status, !.value = r.value]
    /\ UNCHANGED <<cache, returned>>

Next ==
    \/ CallFibNumber
    \/ CallFibSequence
    \/ CallDigitOccurrencesOfFib
    \/ FibNumber
    \/ FibSequence
    \/ DigitOccurrences

\* the Fibonacci generator, its cache, and the counter applied to its output
Spec == Init /\ [][Next]_vars

(***************************************************************************)
(* The digit extractor and the counter as functions of their arguments:    *)
(* the initial state holds one call, drawn from the inputs below.          *)
(***************************************************************************)
TestNumbers == {100, 505, 8978}                     \* tests/test_helpers.py
SampleNumbers == {0, 7, 10, 23, 27, 100, 105}
Numbers == (0..MaxNumber) \cup TestNumbers

SeqsOver(S, maxLen) == UNION {[1..k -> S] : k \in 0..maxLen}

DigitStrings == {IntStr(BigOfNat(n)) : n \in SampleNumbers} \cup {<<>>, <<"1", "2", "a">>}

ExtractorInputs ==
    {PyInt(n) : n \in Numbers} \cup {NpInt64(n) : n \in SampleNumbers}
        \cup {PyFloat(n) : n \in SampleNumbers}
        \cup {PyStr(s) : s \in DigitStrings}
        \cup {PyBool(b) : b \in BOOLEAN}

IndexLists == SeqsOver(-1..MaxDigitIndex, MaxIndices)

\* np.arange(0, 10) * 100 of test_digit_occurrences
TestSequence == [i \in 1..10 |-> NpInt64((i - 1) * 100)]

Sequences == SeqsOver({NpInt64(n) : n \in SampleNumbers}, MaxSeqLen) \cup {TestSequence}

DigitCalls ==
    {Call("int_to_digits", [integer |-> v]) : v \in ExtractorInputs}
        \cup {Call("get_digits", [number |-> v, indices |-> ix]) :
                 v \in ExtractorInputs, ix \in IndexLists}
        \cup {Call("digit_occurrences",
                   [sequence |-> s, digit_index |-> d, exclude_zero |-> z,
                    source |-> "argument"]) :
                 s \in Sequences, d \in 0..MaxDigitIndex, z \in BOOLEAN}

InitDigits ==
    /\ cache = EmptyCache
    /\ returned = {}
    /\ op \in DigitCalls

NextDigits ==
    \/ IntToDigits
    \/ GetDigits
    \/ DigitOccurrences

SpecDigits == InitDigits /\ [][NextDigits]_vars

(***************************************************************************)
(* Reference definitions used by the properties below: the decimal digits  *)
(* of a natural number by arithmetic, independent of the string            *)
(* conversion of the code.                                                 *)
(***************************************************************************)
RECURSIVE NatOfBig(_)
NatOfBig(a) == IF a = <<>> THEN 0 ELSE Head(a) + Base * NatOfBig(Tail(a))

NumDigits(n) == IF n = 0 THEN 1 ELSE CHOOSE k \in 1..9 : 10 ^ (k - 1) <= n /\ n < 10 ^ k

\* the digit of n at position index, position 0 being the most significant
DigitAt(n, index) == (n \div (10 ^ (NumDigits(n) - 1 - index))) % 10

RECURSIVE Reparse(_)
Reparse(digits) ==
    IF digits = <<>> THEN 0
    ELSE 10 * Reparse(SubSeq(digits, 1, Len(digits) - 1)) + digits[Len(digits)]

RECURSIVE SumSeq(_)
SumSeq(q) == IF q = <<>> THEN 0 ELSE Head(q) + SumSeq(Tail(q))

IsIntegral(v) == v.type \in {"int", "int64"}

Completed(name) == op.name = name /\ op.status # "called"

\* the elements of a sequence of integers all have a digit at digit_index
AllHaveDigit(sequence, digit_index) ==
    \A i \in 1..Len(sequence) : digit_index < NumDigits(NatOfBig(sequence[i].val))

\* the digit at digit_index of every element of a sequence of integers
DigitsAt(sequence, digit_index) ==
    [i \in 1..Len(sequence) |-> DigitAt(NatOfBig(sequence[i].val), digit_index)]

(***************************************************************************)
(* C1. fib_sequence(count) returns exactly count elements, the i-th being  *)
(* F(i) with F(0) = 0, F(1) = 1, F(i) = F(i-1) + F(i-2), whatever calls    *)
(* were made before.  Violated: the elements are stored as float64, and    *)
(* F(79) is not a float64.                                                 *)
(***************************************************************************)
IsFibonacci(values) ==
    \A i \in 1..Len(values) :
        values[i] = IF i = 1 THEN <<>>
                    ELSE IF i = 2 THEN <<1>>
                    ELSE IntAdd(values[i - 1], values[i - 2])

C1_FibSequenceIsFibonacci ==
    (Completed("fib_sequence") /\ op.args.n_elements >= 0) =>
        /\ op.status = "returned"
        /\ Len(op.value) = op.args.n_elements
        /\ IsFibonacci([i \in 1..Len(op.value) |-> op.value[i].val])

(***************************************************************************)
(* C2. For a non-negative integer n, int_to_digits(n) returns the base-10  *)
(* digits of n, most significant first, each in 0..9, and reparsing their  *)
(* concatenation gives n.                                                  *)
(***************************************************************************)
C2_DigitsRoundTrip ==
    (Completed("int_to_digits") /\ IsIntegral(op.args.integer)) =>
        /\ op.status = "returned"
        /\ \A i \in 1..Len(op.value) : op.value[i] \in 0..9
        /\ Len(op.value) = NumDigits(NatOfBig(op.args.integer.val))
        /\ Reparse(op.value) = NatOfBig(op.args.integer.val)

C2_Witness ==
    /\ Completed("int_to_digits")
    /\ op.args.integer = PyInt(8978)
    /\ op.value = <<8, 9, 7, 8>>

(***************************************************************************)
(* C3. For a non-negative integer n and in-range indices, get_digits       *)
(* returns a list as long as indices whose j-th entry is the digit of n at *)
(* position indices[j], position 0 being the most significant digit.       *)
(***************************************************************************)
C3_DigitsAtIndices ==
    (/\ Completed("get_digits")
     /\ IsIntegral(op.args.number)
     /\ \A j \in 1..Len(op.args.indices) :
           /\ 0 <= op.args.indices[j]
           /\ op.args.indices[j] < NumDigits(NatOfBig(op.args.number.val))) =>
        /\ op.status = "returned"
        /\ Len(op.value) = Len(op.args.indices)
        /\ \A j \in 1..Len(op.args.indices) :
              op.value[j] = DigitAt(NatOfBig(op.args.number.val), op.args.indices[j])

C3_Witness ==
    /\ Completed("get_digits")
    /\ op.args.number = PyInt(105)
    /\ op.args.indices = <<2, 0>>
    /\ op.value = <<5, 1>>

(***************************************************************************)
(* C4. When digit_occurrences returns, the count of each reported digit d  *)
(* is the number of elements whose digit at digit_index is d, every digit  *)
(* that occurs and is not excluded is reported, 0 is not reported under    *)
(* exclude_zero, and the counts sum to the number of elements with a       *)
(* non-excluded digit; it returns whenever all elements have the digit and *)
(* some digit is left to report.                                           *)
(***************************************************************************)
C4_CountsAreTallies ==
    (Completed("digit_occurrences") /\ op.args.source = "argument"
        /\ AllHaveDigit(op.args.sequence, op.args.digit_index)) =>
        LET at   == DigitsAt(op.args.sequence, op.args.digit_index)
            kept == {i \in 1..Len(at) : ~(op.args.exclude_zero /\ at[i] = 0)}
        IN  /\ kept # {} => op.status = "returned"
            /\ op.status = "returned" =>
                  /\ \A k \in 1..Len(op.value.digits) :
                        op.value.occurrences[k] =
                            Cardinality({i \in 1..Len(at) : at[i] = op.value.digits[k]})
                  /\ \A i \in kept : \E k \in 1..Len(op.value.digits) :
                        op.value.digits[k] = at[i]
                  /\ op.args.exclude_zero =>
                        \A k \in 1..Len(op.value.digits) : op.value.digits[k] # 0
                  /\ SumSeq(op.value.occurrences) = Cardinality(kept)

C4_Witness ==
    /\ Completed("digit_occurrences")
    /\ op.args.sequence = TestSequence
    /\ op.args.digit_index = 0
    /\ op.args.exclude_zero
    /\ op.status = "returned"
    /\ op.value.digits = <<1, 2, 3, 4, 5, 6, 7, 8, 9>>

(***************************************************************************)
(* C5. For every sequence of non-negative integers with enough digits,     *)
(* also one that leaves no tally, digit_occurrences returns two arrays of  *)
(* equal length, the digits strictly ascending.  Violated: with no tally   *)
(* left the column selection of the empty array fails.                     *)
(***************************************************************************)
C5_SortedParallelArrays ==
    (Completed("digit_occurrences") /\ op.args.source = "argument"
        /\ AllHaveDigit(op.args.sequence, op.args.digit_index)) =>
        /\ op.status = "returned"
        /\ Len(op.value.digits) = Len(op.value.occurrences)
        /\ \A k \in 1..(Len(op.value.digits) - 1) :
              op.value.digits[k] < op.value.digits[k + 1]

(***************************************************************************)
(* C6. int_to_digits and get_digits fail with a TypeError whenever the     *)
(* number is not of an integral type; neither returns a digit list then.   *)
(* Violated: the failure is a ValueError, and int_to_digits returns the    *)
(* digits of a string of digits.                                           *)
(***************************************************************************)
C6_NonIntegralIsTypeError ==
    /\ (Completed("int_to_digits") /\ op.args.integer.type \in {"float", "str"}) =>
          (op.status = "raised" /\ op.value = "TypeError")
    /\ (Completed("get_digits") /\ op.args.number.type \in {"float", "str"}) =>
          (op.status = "raised" /\ op.value = "TypeError")

(***************************************************************************)
(* C7. A digit position at or beyond the number of digits of a             *)
(* non-negative integer fails with an IndexError: get_digits if any index  *)
(* is out of range, digit_occurrences as a whole if any element has fewer  *)
(* than digit_index + 1 digits.                                            *)
(***************************************************************************)
C7_OutOfRangeIsIndexError ==
    /\ (/\ Completed("get_digits")
        /\ IsIntegral(op.args.number)
        /\ \E j \in 1..Len(op.args.indices) :
              op.args.indices[j] >= NumDigits(NatOfBig(op.args.number.val))) =>
          (op.status = "raised" /\ op.value = "IndexError")
    /\ (/\ Completed("digit_occurrences")
        /\ op.args.source = "argument"
        /\ ~AllHaveDigit(op.args.sequence, op.args.digit_index)) =>
          (op.status = "raised" /\ op.value = "IndexError")

C7_Witness ==
    /\ Completed("digit_occurrences")
    /\ op.args.sequence = <<NpInt64(105), NpInt64(7), NpInt64(23)>>
    /\ op.args.digit_index = 1
    /\ op.status = "raised"

(***************************************************************************)
(* C8. For count >= 1 the sequence fib_sequence(count) returns is accepted *)
(* by digit_occurrences with default arguments, which tallies the leading  *)
(* digits of F(0)..F(count-1).  Violated: the elements are float64 and     *)
(* get_digits rejects them.                                                *)
(***************************************************************************)
C8_FibSequenceIsCountable ==
    (Completed("digit_occurrences") /\ op.args.source = "fib_sequence"
        /\ Len(op.args.sequence) >= 1) =>
        ~(op.status = "raised" /\ op.value = "ValueError")

(***************************************************************************)
(* C9. The cache is append-only: an entry is never removed or changed,     *)
(* every entry for n is F(n), no entry has a negative index, and a         *)
(* completed fib_number(n) leaves entries for all of 0..n (original), or   *)
(* for n and, when n >= 2, for all of 0..n (amended).                      *)
(***************************************************************************)
CacheIsFibonacci ==
    \A n \in DOMAIN cache :
        /\ n >= 0
        /\ n < 2 => cache[n] = BigOfNat(n)
        /\ n >= 2 => /\ n - 1 \in DOMAIN cache
                     /\ n - 2 \in DOMAIN cache
                     /\ cache[n] = IntAdd(cache[n - 1], cache[n - 2])

CacheAppendOnly ==
    \A n \in DOMAIN cache : n \in DOMAIN cache' /\ cache'[n] = cache[n]

C9_Original ==
    /\ [](CacheIsFibonacci
          /\ ((Completed("fib_number") /\ op.status = "returned") =>
                 \A k \in 0..op.args.n : k \in DOMAIN cache))
    /\ [][CacheAppendOnly]_vars

C9_CacheAppendOnly ==
    /\ [](CacheIsFibonacci
          /\ ((Completed("fib_number") /\ op.status = "returned") =>
                 /\ op.args.n \in DOMAIN cache
                 /\ op.args.n >= 2 => \A k \in 0..op.args.n : k \in DOMAIN cache))
    /\ [][CacheAppendOnly]_vars

C9_Witness ==
    /\ Completed("fib_number")
    /\ op.args.n < 0
    /\ op.status = "raised"
    /\ Cardinality(DOMAIN cache) > MaxCount

(***************************************************************************)
(* C10. Once fib_number(n) has completed, a later fib_number(n) returns    *)
(* the same value, executes the function body not once, and leaves the     *)
(* cache unchanged.                                                        *)
(***************************************************************************)
C10_RepeatedCallIsCached ==
    [][(Pending("fib_number") /\ \E p \in returned : p[1] = op.args.n) =>
          /\ op'.status = "returned"
          /\ \A p \in returned : p[1] = op.args.n => op'.value = p[2]
          /\ op'.evals = 0
          /\ cache' = cache]_vars

C10_Witness ==
    /\ Completed("fib_number")
    /\ op.args.n >= 2
    /\ op.status = "returned"
    /\ op.evals = 0

====
